---- MODULE Spec2Model ----
(***************************************************************************)
(* Bias detection and fairness-metrics engine of the mental-health         *)
(* research platform (backend/src/database/queries/bias_detection.py) and  *)
(* the research endpoint that serves it (backend/src/api/routers/          *)
(* research.py).                                                           *)
(*                                                                         *)
(* The stores are tables without an ORDER BY, so they are bags: `users`    *)
(* is the bag of user rows, each with its social-determinant row if any,   *)
(* `recs` the bag of recommendation rows, `moods` the bag of mood entries. *)
(* Rates are exact fractions [num, den] in lowest terms; NaN (pandas'      *)
(* result of max() over no group) is the fraction 0/0.                     *)
(* `reference_group` is the reference group of the disparate-impact        *)
(* comparison that the deployment asks for; `result` is the pending        *)
(* response of the last call, `kept` the last analysis a caller has kept   *)
(* to compare the next one with, `serving` the call of the real-time       *)
(* scorer that waits for the stores.                                       *)
(***************************************************************************)
EXTENDS Integers, Sequences, FiniteSets, Bags, TLC

VARIABLES users, recs, moods, now, reference_group, result, kept, serving

vars == <<users, recs, moods, now, reference_group, result, kept, serving>>

-----------------------------------------------------------------------------
(* Bounds of the model *)

MaxUsers == 3
MaxRecs == 4
MaxClock == 1
MaxClockRecs == 2
MaxRealtimeUsers == 2
MaxRepeatUsers == 2
MaxEngineUsers == 2
MaxEngineRecs == 2
MaxEngineMoods == 2
MaxMoods == 3
MaxReportUsers == 2
MaxReportRecs == 3
MaxFeedback == 2
MaxFeedbackUsers == 2
MaxFeedbackRecs == 2
MaxBatches == 2
MaxSeedBatches == 3
MaxCalibrationUsers == 1
MaxWait == 2

-----------------------------------------------------------------------------
(* Values of the columns *)

\* SQL NULL / Python None / pandas NaN in an object column
NULL == "NULL"

\* A user row with the income_level of its social_determinants row.  A user
\* created by get_or_create_user has no race, no gender and no
\* social_determinants row yet (auth.py:224): the last profile.
Profiles ==
    { [race_ethnicity |-> "white", gender_identity |-> "male",
       has_sdoh |-> TRUE, income_level |-> "higher_income"],
      [race_ethnicity |-> "black_african_american", gender_identity |-> "female",
       has_sdoh |-> TRUE, income_level |-> "low_income"],
      [race_ethnicity |-> "asian", gender_identity |-> "female",
       has_sdoh |-> TRUE, income_level |-> "higher_income"],
      [race_ethnicity |-> NULL, gender_identity |-> "male",
       has_sdoh |-> TRUE, income_level |-> "low_income"],
      [race_ethnicity |-> NULL, gender_identity |-> NULL,
       has_sdoh |-> FALSE, income_level |-> NULL] }

Races == {p.race_ethnicity : p \in Profiles} \ {NULL}

ResourceTypes == {"therapy", "self_care"}

Statuses == {"delivered", "completed"}

\* days_back arguments of the calls
DaysBackValues == {1, 90}

\* days that pass in one step of the clock
ClockStep == 30

\* confidence_score of a recommendation, in hundredths
Confidences == {0, 90}

\* the confidence of the recommendations of the specifications whose
\* analyses do not read it
UsualConfidence == 90

-----------------------------------------------------------------------------
(* Exact fractions *)

RECURSIVE GCD(_, _)
GCD(a, b) == IF b = 0 THEN a ELSE GCD(b, a % b)

Abs(x) == IF x < 0 THEN -x ELSE x

NaN == [num |-> 0, den |-> 0]

IsNaN(q) == q.den = 0

\* n/d in lowest terms, d > 0
Frac(n, d) ==
    LET g == GCD(Abs(n), d)
    IN  [num |-> n \div g, den |-> d \div g]

Zero == [num |-> 0, den |-> 1]

FracAdd(a, b) ==
    IF IsNaN(a) \/ IsNaN(b) THEN NaN
    ELSE Frac(a.num * b.den + b.num * a.den, a.den * b.den)

FracSub(a, b) ==
    IF IsNaN(a) \/ IsNaN(b) THEN NaN
    ELSE Frac(a.num * b.den - b.num * a.den, a.den * b.den)

\* a / b for b > 0
FracDiv(a, b) == Frac(a.num * b.den, a.den * b.num)

FracMul(a, b) ==
    IF IsNaN(a) \/ IsNaN(b) THEN NaN
    ELSE Frac(a.num * b.num, a.den * b.den)

\* the sum of a series
RECURSIVE SumOf(_, _)
SumOf(S, f) ==
    IF S = {} THEN Zero
    ELSE LET x == CHOOSE y \in S : TRUE
         IN  FracAdd(f[x], SumOf(S \ {x}, f))

\* comparisons with NaN are False, as in IEEE arithmetic
FracLess(a, b) == ~IsNaN(a) /\ ~IsNaN(b) /\ a.num * b.den < b.num * a.den

FracGreater(a, b) == FracLess(b, a)

FracGeq(a, b) == ~IsNaN(a) /\ ~IsNaN(b) /\ a.num * b.den >= b.num * a.den

\* Series.max() / Series.min(): NaN entries are skipped, NaN when nothing is left
SeriesMax(s) ==
    LET vals == {s[k] : k \in DOMAIN s} \ {NaN}
    IN  IF vals = {} THEN NaN
        ELSE CHOOSE m \in vals : \A v \in vals : FracGeq(m, v)

SeriesMin(s) ==
    LET vals == {s[k] : k \in DOMAIN s} \ {NaN}
    IN  IF vals = {} THEN NaN
        ELSE CHOOSE m \in vals : \A v \in vals : FracGeq(v, m)

-----------------------------------------------------------------------------
(* Data frames: bags of rows *)

\* len(df)
NumRows(df) == BagCardinality(df)

\* df[mask]
Filter(df, P(_)) == [r \in {x \in DOMAIN df : P(x)} |-> df[r]]

\* df.groupby(col).size(), also df[col].value_counts(): rows whose key is
\* missing are dropped
GroupSize(df, col) ==
    [v \in {r[col] : r \in DOMAIN df} \ {NULL} |->
        NumRows(Filter(df, LAMBDA r : r[col] = v))]

\* df[col].unique(): the missing value is one of the values
Unique(df, col) == {r[col] : r \in DOMAIN df}

\* a set as a list, in the order of iteration
RECURSIVE SetToSeq(_)
SetToSeq(S) ==
    IF S = {} THEN <<>>
    ELSE LET x == CHOOSE y \in S : TRUE
         IN  <<x>> \o SetToSeq(S \ {x})

RECURSIVE Concat(_)
Concat(ss) == IF ss = <<>> THEN <<>> ELSE Head(ss) \o Concat(Tail(ss))

\* the image of a bag under f: one row per row
BagMap(B, f(_)) ==
    [y \in {f(x) : x \in DOMAIN B} |->
        BagCardinality(Filter(B, LAMBDA x : f(x) = y))]

-----------------------------------------------------------------------------
(* BiasDetectionAnalyzer.__init__ *)

fairness_threshold == [num |-> 1, den |-> 10]

\* the 80% rule, and the threshold of a high-severity parity violation
EightyPercent == [num |-> 8, den |-> 10]

HighDifference == [num |-> 3, den |-> 10]

SuccessStatuses == {"engaged", "completed"}

DemographicAttributes == <<"race_ethnicity", "income_level", "gender_identity">>

-----------------------------------------------------------------------------
(* BiasDetectionAnalyzer._analyze_resource_type_bias *)

\* the division rounds down
GroupRatesFloored(sizes, n) == [v \in DOMAIN sizes |-> Frac(sizes[v] \div n, 1)]

\* df.groupby(col).size() / len(df)
GroupRates(sizes, n) == [v \in DOMAIN sizes |-> Frac(sizes[v], n)]

\* the largest rate alone
MaxDifferenceFromZero(rates) == SeriesMax(rates)

\* rates.max() - rates.min()
MaxDifference(rates) == FracSub(SeriesMax(rates), SeriesMin(rates))

ParityEntry(rates, diff) ==
    [rates          |-> rates,
     max_difference |-> diff,
     biased         |-> FracGreater(diff, fairness_threshold)]

ParityOfRates(rates) == ParityEntry(rates, MaxDifference(rates))

\* one entry of bias_results['demographic_parity']
DemographicParity(df, col) == ParityOfRates(GroupRates(GroupSize(df, col), NumRows(df)))

\* successful_outcomes.groupby(race).size() / df.groupby(race).size(): the
\* division aligns the two indexes, a group without a successful row is NaN
AlignedDivision(succ, total) ==
    [v \in DOMAIN total |->
        IF v \in DOMAIN succ THEN Frac(succ[v], total[v]) ELSE NaN]

SuccessfulOutcomes(df) == Filter(df, LAMBDA r : r.status \in SuccessStatuses)

SuccessByRace(df) ==
    AlignedDivision(GroupSize(SuccessfulOutcomes(df), "race_ethnicity"),
                    GroupSize(df, "race_ethnicity"))

\* success_by_race.fillna(0)
FillNa(series) == [v \in DOMAIN series |-> IF IsNaN(series[v]) THEN Zero ELSE series[v]]

OddsEntry(success_by_race, n, diff) ==
    [success_rates  |-> FillNa(success_by_race),
     max_difference |-> IF n > 1 THEN diff ELSE Zero,
     biased         |-> n > 1 /\ FracGreater(diff, fairness_threshold)]

OddsOfRates(success_by_race) ==
    OddsEntry(success_by_race, Cardinality(DOMAIN success_by_race),
              MaxDifference(success_by_race))

\* bias_results['equalized_odds']: empty unless a row was successful
EqualizedOdds(df) ==
    IF NumRows(SuccessfulOutcomes(df)) > 0
    THEN [race_ethnicity |-> OddsOfRates(SuccessByRace(df))]
    ELSE [none \in {} |-> Zero]

\* scipy's chi2_contingency of the 1 x k table of race counts: the expected
\* frequencies of a one-row table are the observed ones and it has 0 degrees
\* of freedom, so the statistic is 0.0 and the p-value 1.0
StatisticalTests(df) ==
    IF Cardinality(DOMAIN GroupSize(df, "race_ethnicity")) > 1
    THEN [race_chi2 |-> [statistic |-> Zero, p_value |-> Frac(1, 1), significant |-> FALSE]]
    ELSE [none \in {} |-> Zero]

\* pd.cut(df['confidence_score'], bins=5): five intervals of equal width
\* over the range of the scores, closed on the right, the lowest score in
\* the first; a single score lies in the middle of its widened range
ConfidenceBin(confidence_score, lowest, highest) ==
    IF highest = lowest THEN 3
    ELSE IF confidence_score = lowest THEN 1
    ELSE ((confidence_score - lowest) * 5 + (highest - lowest) - 1) \div (highest - lowest)

\* df.groupby('confidence_bin').agg(mean).dropna(): one row per bin that has
\* rows, with the means of engagement_score and confidence_score
CalibrationData(df) ==
    LET lowest == CHOOSE c \in Unique(df, "confidence_score") :
                      \A d \in Unique(df, "confidence_score") : c <= d
        highest == CHOOSE c \in Unique(df, "confidence_score") :
                      \A d \in Unique(df, "confidence_score") : c >= d
        Bin(r) == ConfidenceBin(r.confidence_score, lowest, highest)
        Rows(b) == {r \in DOMAIN df : Bin(r) = b}
        Size(b) == Frac(BagCardinality(Filter(df, LAMBDA r : Bin(r) = b)), 1)
    IN  [b \in {Bin(r) : r \in DOMAIN df} |->
            [engagement_score |->
                 FracDiv(SumOf(Rows(b), [r \in Rows(b) |->
                                 FracMul(r.engagement_score, Frac(df[r], 1))]), Size(b)),
             confidence_score |->
                 FracDiv(SumOf(Rows(b), [r \in Rows(b) |->
                                 Frac(r.confidence_score * df[r], 100)]), Size(b))]]

\* stats.pearsonr of the two columns: NaN when a column is constant, else
\* the sign of the correlation and its square
PearsonR(data) ==
    LET n == Frac(Cardinality(DOMAIN data), 1)
        x == [b \in DOMAIN data |-> data[b].confidence_score]
        y == [b \in DOMAIN data |-> data[b].engagement_score]
        Sum(f) == SumOf(DOMAIN data, f)
        Product(f, g) == [b \in DOMAIN data |-> FracMul(f[b], g[b])]
        covariance == FracSub(FracMul(n, Sum(Product(x, y))), FracMul(Sum(x), Sum(y)))
        variance_x == FracSub(FracMul(n, Sum(Product(x, x))), FracMul(Sum(x), Sum(x)))
        variance_y == FracSub(FracMul(n, Sum(Product(y, y))), FracMul(Sum(y), Sum(y)))
    IN  IF variance_x.num = 0 \/ variance_y.num = 0
        THEN NaN
        ELSE [sign   |-> IF covariance.num > 0 THEN 1 ELSE IF covariance.num < 0 THEN -1 ELSE 0,
              square |-> FracDiv(FracMul(covariance, covariance),
                                 FracMul(variance_x, variance_y))]

\* bias_results['calibration']: the p-value of n <= 5 points is below 0.05
\* when the squared correlation exceeds the critical value of n
CorrelationEntry(correlation, n) ==
    IF correlation = NaN
    THEN [correlation |-> NaN, p_value |-> NaN, well_calibrated |-> FALSE]
    ELSE LET critical == IF n = 3 THEN Frac(9938, 10000)
                         ELSE IF n = 4 THEN Frac(9025, 10000)
                         ELSE Frac(7715, 10000)
             significant == FracGreater(correlation.square, critical)
         IN  [correlation |-> correlation,
              p_value |-> [below_5_percent |-> significant],
              well_calibrated |-> /\ correlation.sign = 1
                                  /\ FracGreater(correlation.square, Frac(1, 4))
                                  /\ significant]

\* if len(calibration_data) > 2
CalibrationOfData(data) ==
    IF Cardinality(DOMAIN data) > 2
    THEN CorrelationEntry(PearsonR(data), Cardinality(DOMAIN data))
    ELSE [none \in {} |-> Zero]

\* if ... len(df) > 20; the calibration stays the empty dictionary otherwise
PartitionCalibration(df) ==
    IF NumRows(df) > 20
    THEN CalibrationOfData(CalibrationData(df))
    ELSE [none \in {} |-> Zero]

analyze_resource_type_bias(df, resource_type) ==
    [resource_type      |-> resource_type,
     total_count        |-> NumRows(df),
     demographic_parity |-> [a \in {DemographicAttributes[i] : i \in 1..3} |->
                                DemographicParity(df, a)],
     equalized_odds     |-> EqualizedOdds(df),
     calibration        |-> PartitionCalibration(df),
     statistical_tests  |-> StatisticalTests(df)]

-----------------------------------------------------------------------------
(* BiasDetectionAnalyzer._calculate_fairness_metrics *)

\* str(race) of a value of the race_ethnicity column
StrRace(race) == IF race = NULL THEN "None" ELSE race

\* pop_race_dict: the users of every race of the user table, the users
\* without a race under the key 'None'
PopRaceDict(user_table) ==
    [k \in {StrRace(u.race_ethnicity) : u \in DOMAIN user_table} |->
        BagCardinality(Filter(user_table, LAMBDA u : StrRace(u.race_ethnicity) = k))]

\* sum(pop_race_dict.values())
SumValues(dict) == BagCardinality(dict)

\* rec_race_dist.get(race, 0)
GetOrZero(dict, key) == IF key \in DOMAIN dict THEN dict[key] ELSE 0

\* the population rate over the recommendation rate
ParityRatioInverted(pop_rate, rec_rate) ==
    IF FracGreater(rec_rate, Zero) THEN FracDiv(pop_rate, rec_rate) ELSE Zero

\* rec_rate / pop_rate if pop_rate > 0 else 0
ParityRatio(pop_rate, rec_rate) ==
    IF FracGreater(pop_rate, Zero) THEN FracDiv(rec_rate, pop_rate) ELSE Zero

\* (rec_rate / pop_rate) < 0.8 if pop_rate > 0 else False
Underrepresented(pop_rate, rec_rate) ==
    IF FracGreater(pop_rate, Zero)
    THEN FracLess(FracDiv(rec_rate, pop_rate), EightyPercent)
    ELSE FALSE

RepresentationOfRates(pop_rate, rec_rate) ==
    [population_rate     |-> pop_rate,
     recommendation_rate |-> rec_rate,
     parity_ratio        |-> ParityRatio(pop_rate, rec_rate),
     underrepresented    |-> Underrepresented(pop_rate, rec_rate)]

RepresentationOfCounts(pop_race_dict, rec_race_dist, n) ==
    [race \in DOMAIN pop_race_dict |->
        RepresentationOfRates(Frac(pop_race_dict[race], SumValues(pop_race_dict)),
                              Frac(GetOrZero(rec_race_dist, race), n))]

RepresentationParity(df, user_table) ==
    RepresentationOfCounts(PopRaceDict(user_table), GroupSize(df, "race_ethnicity"),
                           NumRows(df))

\* len(therapy_recs[race_ethnicity == race]) / len(df[race_ethnicity == race]),
\* 0 when df has no such row; a comparison with a missing value selects no row
RateOrZero(n, total) == IF total > 0 THEN Frac(n, total) ELSE Zero

TherapyRate(df, race) ==
    RateOrZero(NumRows(Filter(df, LAMBDA r : /\ race # NULL
                                             /\ r.race_ethnicity = race
                                             /\ r.resource_type = "therapy")),
               NumRows(Filter(df, LAMBDA r : race # NULL /\ r.race_ethnicity = race)))

\* the reference rate over the rate of the group
DisparateImpactRatioInverted(race_therapy_rate, white_therapy_rate) ==
    IF FracGreater(race_therapy_rate, Zero)
    THEN FracDiv(white_therapy_rate, race_therapy_rate)
    ELSE Zero

DisparateImpactRatio(race_therapy_rate, white_therapy_rate) ==
    IF FracGreater(white_therapy_rate, Zero)
    THEN FracDiv(race_therapy_rate, white_therapy_rate)
    ELSE Zero

ImpactEntry(race_therapy_rate, white_therapy_rate, ratio) ==
    [therapy_rate           |-> race_therapy_rate,
     white_therapy_rate     |-> white_therapy_rate,
     ratio                  |-> ratio,
     passes_80_percent_rule |-> FracGeq(ratio, EightyPercent)]

ImpactOfRates(race_therapy_rate, white_therapy_rate) ==
    ImpactEntry(race_therapy_rate, white_therapy_rate,
                DisparateImpactRatio(race_therapy_rate, white_therapy_rate))

\* the group every other group is compared with
ReferenceGroup == "white"

ImpactAgainst(df, white_therapy_rate) ==
    [race \in Unique(df, "race_ethnicity") \ {ReferenceGroup} |->
        ImpactOfRates(TherapyRate(df, race), white_therapy_rate)]

DisparateImpact(df) == ImpactAgainst(df, TherapyRate(df, ReferenceGroup))

MetricsWith(representation_parity, df) ==
    IF NumRows(Filter(df, LAMBDA r : r.resource_type = "therapy")) > 0
    THEN [representation_parity |-> representation_parity,
          disparate_impact      |-> DisparateImpact(df)]
    ELSE [representation_parity |-> representation_parity]

calculate_fairness_metrics(df, user_table) ==
    MetricsWith(RepresentationParity(df, user_table), df)

-----------------------------------------------------------------------------
(* BiasDetectionAnalyzer._analyze_demographic_patterns *)

\* resource_preferences_by_race: the share of every resource type among the
\* rows of a race
PreferencesOf(df, sizes) ==
    [race \in DOMAIN sizes |->
        [t \in Unique(df, "resource_type") |->
            Frac(NumRows(Filter(df, LAMBDA r : r.race_ethnicity = race
                                               /\ r.resource_type = t)),
                 sizes[race])]]

analyze_demographic_patterns(df) ==
    [resource_preferences_by_race |-> PreferencesOf(df, GroupSize(df, "race_ethnicity"))]

-----------------------------------------------------------------------------
(* BiasDetectionAnalyzer._generate_bias_recommendations *)

\* every parity violation is of severity medium
ParityFindingAlwaysMedium(resource_type, demo_attr, parity_data) ==
    IF parity_data.biased
    THEN << [type |-> "demographic_parity_violation",
             severity |-> "medium",
             resource_type |-> resource_type,
             demographic_attribute |-> demo_attr,
             max_difference |-> parity_data.max_difference] >>
    ELSE <<>>

ParityFinding(resource_type, demo_attr, parity_data) ==
    IF parity_data.biased
    THEN << [type |-> "demographic_parity_violation",
             severity |-> IF FracGreater(parity_data.max_difference, HighDifference)
                          THEN "high" ELSE "medium",
             resource_type |-> resource_type,
             demographic_attribute |-> demo_attr,
             max_difference |-> parity_data.max_difference] >>
    ELSE <<>>

ParityFindingsOf(bias_tests, types) ==
    Concat([k \in 1..(3 * Len(types)) |->
              ParityFinding(types[((k - 1) \div 3) + 1],
                            DemographicAttributes[((k - 1) % 3) + 1],
                            bias_tests[types[((k - 1) \div 3) + 1]]
                                .demographic_parity[DemographicAttributes[((k - 1) % 3) + 1]])])

ParityFindings(bias_tests) == ParityFindingsOf(bias_tests, SetToSeq(DOMAIN bias_tests))

RepresentationFinding(race, parity_data) ==
    IF parity_data.underrepresented
    THEN << [type |-> "underrepresentation",
             severity |-> "medium",
             demographic_group |-> race,
             parity_ratio |-> parity_data.parity_ratio] >>
    ELSE <<>>

RepresentationFindingsOf(parity, groups) ==
    Concat([k \in 1..Len(groups) |-> RepresentationFinding(groups[k], parity[groups[k]])])

RepresentationFindings(fairness_metrics) ==
    RepresentationFindingsOf(fairness_metrics.representation_parity,
                             SetToSeq(DOMAIN fairness_metrics.representation_parity))

\* a failed 80% rule reported with medium severity
ImpactFindingMedium(race, impact_data) ==
    IF ~impact_data.passes_80_percent_rule
    THEN << [type |-> "disparate_impact",
             severity |-> "medium",
             demographic_group |-> race,
             ratio |-> impact_data.ratio] >>
    ELSE <<>>

ImpactFinding(race, impact_data) ==
    IF ~impact_data.passes_80_percent_rule
    THEN << [type |-> "disparate_impact",
             severity |-> "high",
             demographic_group |-> race,
             ratio |-> impact_data.ratio] >>
    ELSE <<>>

ImpactFindingsOf(impact, groups) ==
    Concat([k \in 1..Len(groups) |-> ImpactFinding(groups[k], impact[groups[k]])])

ImpactFindings(fairness_metrics) ==
    IF "disparate_impact" \in DOMAIN fairness_metrics
    THEN ImpactFindingsOf(fairness_metrics.disparate_impact,
                          SetToSeq(DOMAIN fairness_metrics.disparate_impact))
    ELSE <<>>

generate_bias_recommendations(analysis_results) ==
    ParityFindings(analysis_results.bias_tests)
        \o RepresentationFindings(analysis_results.fairness_metrics)
        \o ImpactFindings(analysis_results.fairness_metrics)

-----------------------------------------------------------------------------
(* BiasDetectionAnalyzer.analyze_recommendation_bias *)

\* a query that keeps the last day whatever days_back says
LoadRecommendationsLastDay(rec_table, user_table, clock, days_back) ==
    LET cutoff_date == clock - 1
        joined == Filter(rec_table, LAMBDA r : /\ BagIn(r.user, user_table)
                                               /\ r.user.has_sdoh
                                               /\ r.recommended_at >= cutoff_date)
    IN  BagMap(joined, LAMBDA r :
                 [resource_type   |-> r.resource_type,
                  gender_identity |-> r.user.gender_identity,
                  race_ethnicity  |-> r.user.race_ethnicity,
                  confidence_score |-> r.confidence_score,
                  engagement_score |-> r.engagement_score,
                  status          |-> r.status,
                  income_level    |-> r.user.income_level])

\* the query: recommendations joined with their user and the user's
\* social determinants, recommended_at >= cutoff_date
LoadRecommendations(rec_table, user_table, clock, days_back) ==
    LET cutoff_date == clock - days_back
        joined == Filter(rec_table, LAMBDA r : /\ BagIn(r.user, user_table)
                                               /\ r.user.has_sdoh
                                               /\ r.recommended_at >= cutoff_date)
    IN  BagMap(joined, LAMBDA r :
                 [resource_type   |-> r.resource_type,
                  gender_identity |-> r.user.gender_identity,
                  race_ethnicity  |-> r.user.race_ethnicity,
                  confidence_score |-> r.confidence_score,
                  engagement_score |-> r.engagement_score,
                  status          |-> r.status,
                  income_level    |-> r.user.income_level])

NoRecommendations == [error |-> "No recommendations found in the specified time period"]

\* results, once its tests, metrics and patterns are in place
WithRecommendations(results) ==
    [results EXCEPT !.recommendations = generate_bias_recommendations(results)]

\* every resource type is analysed over the whole dataset
BiasTestsUnfiltered(df) ==
    [t \in Unique(df, "resource_type") |-> analyze_resource_type_bias(df, t)]

BiasTests(df) ==
    [t \in Unique(df, "resource_type") |->
        analyze_resource_type_bias(Filter(df, LAMBDA r : r.resource_type = t), t)]

AnalyzeDataset(df, user_table, days_back) ==
    IF NumRows(df) = 0
    THEN NoRecommendations
    ELSE WithRecommendations(
             [analysis_period_days  |-> days_back,
              total_recommendations |-> NumRows(df),
              bias_tests            |-> BiasTests(df),
              fairness_metrics      |-> calculate_fairness_metrics(df, user_table),
              demographic_patterns  |-> analyze_demographic_patterns(df),
              recommendations       |-> <<>>])

analyze_recommendation_bias(rec_table, user_table, clock, days_back) ==
    AnalyzeDataset(LoadRecommendations(rec_table, user_table, clock, days_back),
                   user_table, days_back)

-----------------------------------------------------------------------------
(* BiasDetectionAnalyzer.analyze_geographic_bias *)

\* the mean of f over the rows S, NaN over no row
MeanOf(S, f(_)) ==
    IF S = {} THEN NaN
    ELSE LET total == SumOf(S, [x \in S |-> f(x)])
         IN  Frac(total.num, total.den * Cardinality(S))

Indicator(b) == IF b THEN Frac(1, 1) ELSE Zero

\* the grouped query: one row per user with a mood entry recorded since the
\* cutoff date, with the average of the user's mood scores
LoadGeographic(mood_table, clock, days_back) ==
    LET cutoff_date == clock - days_back
        entries == Filter(mood_table, LAMBDA m : m.recorded_at >= cutoff_date)
        Owner(m) == [pseudonym_id |-> m.pseudonym_id,
                     zip_code_prefix |-> m.zip_code_prefix,
                     race_ethnicity |-> m.race_ethnicity,
                     has_mental_health_provider |-> m.has_mental_health_provider]
    IN  { [pseudonym_id |-> o.pseudonym_id,
           zip_code_prefix |-> o.zip_code_prefix,
           race_ethnicity |-> o.race_ethnicity,
           has_mental_health_provider |-> o.has_mental_health_provider,
           mood_entry_count |-> NumRows(Filter(entries, LAMBDA m : Owner(m) = o)),
           avg_mood |->
               LET mine == Filter(entries, LAMBDA m : Owner(m) = o)
                   total == SumOf(DOMAIN mine, [m \in DOMAIN mine |-> Frac(m.mood_score * mine[m], 1)])
               IN  Frac(total.num, total.den * NumRows(mine))]
          : o \in {Owner(m) : m \in DOMAIN entries} }

\* BiasDetectionAnalyzer._analyze_access_disparities

\* the share of the users of a race who have a provider
AccessByRacePooled(df) ==
    [race \in {r.race_ethnicity : r \in {x \in df : x.zip_code_prefix # NULL}} \ {NULL} |->
        MeanOf({r \in df : r.race_ethnicity = race /\ r.zip_code_prefix # NULL},
               LAMBDA r : Indicator(r.has_mental_health_provider))]

\* access_df.groupby('race_ethnicity')[...].mean() over the rows of
\* df.groupby(['race_ethnicity', 'zip_code_prefix']): the mean, over the
\* (race, zip) cells of a race, of the cell's mean access
AccessByRace(df) ==
    [race \in {r.race_ethnicity : r \in {x \in df : x.zip_code_prefix # NULL}} \ {NULL} |->
        MeanOf({r.zip_code_prefix : r \in {x \in df : x.race_ethnicity = race}} \ {NULL},
               LAMBDA zip : MeanOf({r \in df : r.race_ethnicity = race /\ r.zip_code_prefix = zip},
                                   LAMBDA r : Indicator(r.has_mental_health_provider)))]

\* the gap measured from zero
GapEntryFromZero(max_access, min_access) ==
    [max_rate |-> max_access,
     min_rate |-> min_access,
     gap      |-> max_access,
     significant_disparity |-> FracGreater(max_access, [num |-> 2, den |-> 10])]

GapEntry(max_access, min_access) ==
    [max_rate |-> max_access,
     min_rate |-> min_access,
     gap      |-> FracSub(max_access, min_access),
     significant_disparity |->
         FracGreater(FracSub(max_access, min_access), [num |-> 2, den |-> 10])]

AccessGap(access_by_race) == GapEntry(SeriesMax(access_by_race), SeriesMin(access_by_race))

DisparitiesOf(access_by_race) ==
    [access_rates_by_race |-> access_by_race,
     access_gap           |-> AccessGap(access_by_race)]

analyze_access_disparities(df) == DisparitiesOf(AccessByRace(df))

NoGeographicData == [error |-> "No geographic data found"]

analyze_geographic_bias(mood_table, clock, days_back) ==
    LET df == LoadGeographic(mood_table, clock, days_back)
        zips == {r.zip_code_prefix : r \in df} \ {NULL}
        InZip(zip) == {r \in df : r.zip_code_prefix = zip}
        low_mood_areas ==
            {zip \in zips : FracLess(MeanOf(InZip(zip), LAMBDA r : r.avg_mood), Frac(5, 1))}
        low_access_areas ==
            {zip \in zips : FracLess(MeanOf(InZip(zip),
                                LAMBDA r : Indicator(r.has_mental_health_provider)),
                                [num |-> 1, den |-> 2])}
        moods_of == [r \in df |-> r.avg_mood]
    IN  IF df = {}
        THEN NoGeographicData
        ELSE [analysis_period_days |-> days_back,
              total_locations      |-> Cardinality(df),
              geographic_patterns  |->
                  [low_mood_areas   |-> Cardinality(low_mood_areas),
                   low_access_areas |-> Cardinality(low_access_areas),
                   mood_range       |-> [min |-> SeriesMin(moods_of),
                                         max |-> SeriesMax(moods_of)]],
              access_disparities   |-> analyze_access_disparities(df),
              recommendations      |-> <<>>]

-----------------------------------------------------------------------------
(* BiasDetectionAnalyzer.generate_bias_report *)

\* the default days_back of the two analyses
DefaultDaysBack == 90

NumHigh(findings) == Cardinality({i \in 1..Len(findings) : findings[i].severity = "high"})

\* a window without data is tallied as an issue
TalliedFindingsNoData(recommendation_bias) ==
    IF "recommendations" \in DOMAIN recommendation_bias
    THEN recommendation_bias.recommendations
    ELSE << [type |-> "no_data", severity |-> "medium"] >>

\* the findings the report tallies
TalliedFindings(recommendation_bias) ==
    IF "recommendations" \in DOMAIN recommendation_bias
    THEN recommendation_bias.recommendations
    ELSE <<>>

\* medium from 2 issues on
BiasRiskLevelFromTwo(total_bias_issues, high_severity_issues) ==
    IF high_severity_issues > 0 THEN "high"
    ELSE IF total_bias_issues >= 2 THEN "medium"
    ELSE "low"

BiasRiskLevel(total_bias_issues, high_severity_issues) ==
    IF high_severity_issues > 0 THEN "high"
    ELSE IF total_bias_issues > 2 THEN "medium"
    ELSE "low"

OverallAssessment(total_bias_issues, high_severity_issues) ==
    [total_bias_issues    |-> total_bias_issues,
     high_severity_issues |-> high_severity_issues,
     bias_risk_level      |-> BiasRiskLevel(total_bias_issues, high_severity_issues),
     requires_immediate_action |-> high_severity_issues > 0]

\* the medium item is appended before the immediate one
ActionItemsMediumFirst(total_bias_issues, high_severity_issues) ==
    (IF total_bias_issues > 0 THEN << [priority |-> "medium"] >> ELSE <<>>)
    \o (IF high_severity_issues > 0 THEN << [priority |-> "immediate"] >> ELSE <<>>)
    \o << [priority |-> "ongoing"] >>

ActionItems(total_bias_issues, high_severity_issues) ==
    (IF high_severity_issues > 0 THEN << [priority |-> "immediate"] >> ELSE <<>>)
    \o (IF total_bias_issues > 0 THEN << [priority |-> "medium"] >> ELSE <<>>)
    \o << [priority |-> "ongoing"] >>

ReportOfCounts(recommendation_bias, geographic_bias, clock, total_bias_issues, high_severity_issues) ==
    [generated_at        |-> clock,
     recommendation_bias |-> recommendation_bias,
     geographic_bias     |-> geographic_bias,
     overall_assessment  |-> OverallAssessment(total_bias_issues, high_severity_issues),
     action_items        |-> ActionItems(total_bias_issues, high_severity_issues)]

ReportOfFindings(recommendation_bias, geographic_bias, clock, findings) ==
    ReportOfCounts(recommendation_bias, geographic_bias, clock,
                   Len(findings), NumHigh(findings))

\* a significant access disparity is tallied as a high finding
ReportOfBoth(recommendation_bias, geographic_bias, clock) ==
    ReportOfFindings(recommendation_bias, geographic_bias, clock,
                     TalliedFindings(recommendation_bias)
                        \o (IF /\ "access_disparities" \in DOMAIN geographic_bias
                               /\ geographic_bias.access_disparities.access_gap.significant_disparity
                            THEN << [type |-> "access_disparity", severity |-> "high"] >>
                            ELSE <<>>))

ReportOf(recommendation_bias, geographic_bias, clock) ==
    ReportOfFindings(recommendation_bias, geographic_bias, clock,
                     TalliedFindings(recommendation_bias))

generate_bias_report(rec_table, user_table, mood_table, clock) ==
    ReportOf(analyze_recommendation_bias(rec_table, user_table, clock, DefaultDaysBack),
             analyze_geographic_bias(mood_table, clock, DefaultDaysBack),
             clock)

\* the two analyses over the window the caller asks for
run_bias_analysis_windowed(rec_table, user_table, mood_table, clock, days_back) ==
    ReportOf(analyze_recommendation_bias(rec_table, user_table, clock, days_back),
             analyze_geographic_bias(mood_table, clock, days_back),
             clock)

\* run_bias_analysis(days_back): the report, whatever days_back is
run_bias_analysis(rec_table, user_table, mood_table, clock, days_back) ==
    generate_bias_report(rec_table, user_table, mood_table, clock)

-----------------------------------------------------------------------------
(* BiasDetectionAnalyzer.detect_algorithmic_bias_realtime *)

\* an exception that leaves the method
Raised(exception) == [exception |-> exception]

UserNotFound == [error |-> "User not found"]

\* the user row joined with its social_determinants row
FindUser(user_table, user_id) == BagIn(user_id, user_table) /\ user_id.has_sdoh

\* the cohort: same race_ethnicity and income_level (a missing value is
\* compared with IS NULL)
SameCohort(u, user) ==
    /\ u.has_sdoh
    /\ u.race_ethnicity = user.race_ethnicity
    /\ u.income_level = user.income_level

\* therapy recommendations of the users of the cohort
SimilarUsers(user_table, rec_table, user) ==
    NumRows(Filter(rec_table, LAMBDA r : /\ BagIn(r.user, user_table)
                                         /\ SameCohort(r.user, user)
                                         /\ r.resource_type = "therapy"))

\* users of the cohort
TotalSimilar(user_table, user) ==
    NumRows(Filter(user_table, LAMBDA u : SameCohort(u, user)))

TherapyRecommendations(rec_table) ==
    NumRows(Filter(rec_table, LAMBDA r : r.resource_type = "therapy"))

\* demographic_therapy_rate / overall_therapy_rate if overall_therapy_rate > 0 else 0
RateRatio(demographic_therapy_rate, overall_therapy_rate) ==
    IF FracGreater(overall_therapy_rate, Zero)
    THEN FracDiv(demographic_therapy_rate, overall_therapy_rate)
    ELSE Zero

NoIndicators == [none \in {} |-> Zero]

\* user.race_ethnicity.value in the description
TherapyIndicator(user, demographic_therapy_rate, overall_therapy_rate, rate_ratio) ==
    IF ~FracLess(rate_ratio, EightyPercent) THEN NoIndicators
    ELSE IF user.race_ethnicity = NULL THEN Raised("AttributeError")
    ELSE [k \in {"therapy_underrepresentation"} |->
             [severity         |-> FracSub(Frac(1, 1), rate_ratio),
              demographic_rate |-> demographic_therapy_rate,
              overall_rate     |-> overall_therapy_rate]]

TherapyOfRates(user, demographic_therapy_rate, overall_therapy_rate) ==
    TherapyIndicator(user, demographic_therapy_rate, overall_therapy_rate,
                     RateRatio(demographic_therapy_rate, overall_therapy_rate))

\* similar_users / total_similar against count(therapy) / count(): the
\* second division raises when there is no recommendation
TherapyOfCounts(user, similar_users, total_similar, therapy_recs, all_recs) ==
    IF total_similar > 0
    THEN IF all_recs = 0
         THEN Raised("ZeroDivisionError")
         ELSE TherapyOfRates(user, Frac(similar_users, total_similar),
                             Frac(therapy_recs, all_recs))
    ELSE NoIndicators

TherapyCheck(user_table, rec_table, user, recommendation_data) ==
    IF recommendation_data.resource_type = "therapy"
    THEN TherapyOfCounts(user, SimilarUsers(user_table, rec_table, user),
                         TotalSimilar(user_table, user),
                         TherapyRecommendations(rec_table), NumRows(rec_table))
    ELSE NoIndicators

\* confidence_score.between(confidence - 0.1, confidence + 0.1), in hundredths
ConfidenceBand == 10

\* total_similar_confidence > 10
MinimumSample == 10

\* calibration_error > 0.2
CalibrationThreshold == [num |-> 1, den |-> 5]

SimilarConfidence(rec_table, confidence) ==
    Filter(rec_table, LAMBDA r : /\ r.confidence_score >= confidence - ConfidenceBand
                                 /\ r.confidence_score <= confidence + ConfidenceBand)

FracAbs(q) == [num |-> Abs(q.num), den |-> q.den]

CalibrationIndicator(predicted, actual_success_rate, calibration_error) ==
    IF FracGreater(calibration_error, CalibrationThreshold)
    THEN [k \in {"poor_calibration"} |->
             [severity          |-> calibration_error,
              predicted_success |-> predicted,
              actual_success    |-> actual_success_rate]]
    ELSE NoIndicators

CalibrationOfRates(predicted, actual_success_rate) ==
    CalibrationIndicator(predicted, actual_success_rate,
                         FracAbs(FracSub(predicted, actual_success_rate)))

CalibrationOfCounts(confidence, similar_confidence_recs, total_similar_confidence) ==
    IF total_similar_confidence > MinimumSample
    THEN CalibrationOfRates(Frac(confidence, 100),
                            Frac(similar_confidence_recs, total_similar_confidence))
    ELSE NoIndicators

CalibrationOfSimilar(confidence, similar) ==
    CalibrationOfCounts(confidence,
                        NumRows(Filter(similar, LAMBDA r : r.status \in SuccessStatuses)),
                        NumRows(similar))

\* recommendation_data.get('confidence_score', 0), checked if confidence > 0
CalibrationCheck(rec_table, recommendation_data) ==
    IF recommendation_data.confidence_score > 0
    THEN CalibrationOfSimilar(recommendation_data.confidence_score,
                              SimilarConfidence(rec_table,
                                                recommendation_data.confidence_score))
    ELSE NoIndicators

\* the smallest severity is reported
MinSeverity(bias_indicators) ==
    IF DOMAIN bias_indicators = {} THEN Zero
    ELSE SeriesMin([k \in DOMAIN bias_indicators |-> bias_indicators[k].severity])

\* max([ind['severity'] ...]) if bias_indicators else 0
MaxSeverity(bias_indicators) ==
    IF DOMAIN bias_indicators = {} THEN Zero
    ELSE SeriesMax([k \in DOMAIN bias_indicators |-> bias_indicators[k].severity])

\* the returned dictionary; user.race_ethnicity.value raises for a user
\* without a race
RealtimeResult(user, bias_indicators) ==
    IF user.race_ethnicity = NULL THEN Raised("AttributeError")
    ELSE [user_demographics |-> [race_ethnicity |-> user.race_ethnicity,
                                 income_level   |-> user.income_level],
          bias_indicators   |-> bias_indicators,
          bias_detected     |-> DOMAIN bias_indicators # {},
          max_severity      |-> MaxSeverity(bias_indicators)]

RealtimeOfChecks(user, therapy, calibration) ==
    IF "exception" \in DOMAIN therapy THEN therapy
    ELSE RealtimeResult(user, therapy @@ calibration)

detect_algorithmic_bias_realtime(user_table, rec_table, user_id, recommendation_data) ==
    IF ~FindUser(user_table, user_id) THEN UserNotFound
    ELSE RealtimeOfChecks(user_id,
                          TherapyCheck(user_table, rec_table, user_id, recommendation_data),
                          CalibrationCheck(rec_table, recommendation_data))

-----------------------------------------------------------------------------
(* The research router: get_bias_analysis *)

\* settings.BIAS_DETECTION_ENABLED
BIAS_DETECTION_ENABLED == TRUE

\* the fields BiasAnalysisResponse requires
BiasAnalysisResponseFields ==
    {"analysis_period_days", "total_recommendations", "bias_tests",
     "fairness_metrics", "demographic_patterns", "recommendations"}

HTTP_500_INTERNAL_SERVER_ERROR == 500
HTTP_503_SERVICE_UNAVAILABLE == 503

\* BiasAnalysisResponse(**results) raises a validation error when a required
\* field is missing; the handler turns every exception into a 500
BiasAnalysisResponse(results) ==
    IF BiasAnalysisResponseFields \subseteq DOMAIN results
    THEN [status_code |-> 200, body |-> results]
    ELSE [status_code |-> HTTP_500_INTERNAL_SERVER_ERROR,
          detail |-> "Failed to perform bias analysis"]

get_bias_analysis(rec_table, user_table, clock, days_back) ==
    IF ~BIAS_DETECTION_ENABLED
    THEN [status_code |-> HTTP_503_SERVICE_UNAVAILABLE,
          detail |-> "Bias detection is currently disabled"]
    ELSE BiasAnalysisResponse(
             analyze_recommendation_bias(rec_table, user_table, clock, days_back))

-----------------------------------------------------------------------------
(* The state machine *)

\* `result` when no response is pending
NoResult == [op |-> "none"]

\* `serving` when the real-time scorer is not running
NoServing == [pc |-> "idle"]

\* no call is in progress
Idle == result = NoResult /\ serving = NoServing

Init ==
    /\ users = EmptyBag
    /\ recs = EmptyBag
    /\ moods = EmptyBag
    /\ now = 0
    /\ reference_group = ReferenceGroup
    /\ result = NoResult
    /\ kept = NoResult
    /\ serving = NoServing

\* a user row and its social_determinants row are stored
create_user(p) ==
    /\ Idle
    /\ BagCardinality(users) < MaxUsers
    /\ users' = users (+) SetToBag({p})
    /\ kept' = NoResult
    /\ UNCHANGED <<recs, moods, now, reference_group, result, serving>>

\* a recommendation for a stored user is stored
NewRecommendation(p, t, s, c, clock) ==
    [user |-> p, resource_type |-> t, status |-> s, confidence_score |-> c,
     engagement_score |-> Zero, recommended_at |-> clock, changes |-> 0]

create_recommendation(p, t, s, c) ==
    /\ Idle
    /\ BagIn(p, users)
    /\ BagCardinality(recs) < MaxRecs
    /\ recs' = recs (+) SetToBag({NewRecommendation(p, t, s, c, now)})
    /\ kept' = NoResult
    /\ UNCHANGED <<users, moods, now, reference_group, result, serving>>

\* days pass
AdvanceClock ==
    /\ Idle
    /\ now < MaxClock * ClockStep
    /\ now' = now + ClockStep
    /\ UNCHANGED <<users, recs, moods, reference_group, result, kept, serving>>

\* The engine is synchronous and reads a snapshot of the stores: a call is
\* one step, and its response is pending until the caller has taken it.
call_analyze_recommendation_bias(days_back) ==
    /\ Idle
    /\ result' = [op |-> "analyze_recommendation_bias", days_back |-> days_back,
                  value |-> analyze_recommendation_bias(recs, users, now, days_back)]
    /\ UNCHANGED <<users, recs, moods, now, reference_group, kept, serving>>

call_get_bias_analysis(days_back) ==
    /\ Idle
    /\ result' = [op |-> "get_bias_analysis", days_back |-> days_back,
                  value |-> get_bias_analysis(recs, users, now, days_back)]
    /\ UNCHANGED <<users, recs, moods, now, reference_group, kept, serving>>

call_generate_bias_report ==
    /\ Idle
    /\ result' = [op |-> "generate_bias_report",
                  value |-> generate_bias_report(recs, users, moods, now)]
    /\ UNCHANGED <<users, recs, moods, now, reference_group, kept, serving>>

\* the seed script stores a batch of recommendations of one kind
seed_recommendations(p, t, s, c, k) ==
    /\ Idle
    /\ BagIn(p, users)
    /\ Cardinality(DOMAIN recs) < MaxSeedBatches
    /\ ~BagIn(NewRecommendation(p, t, s, c, now), recs)
    /\ recs' = recs (+) [r \in {NewRecommendation(p, t, s, c, now)} |-> k]
    /\ kept' = NoResult
    /\ UNCHANGED <<users, moods, now, reference_group, result, serving>>

\* The real-time scorer is called on the serving path with the caller's
\* latency budget; it issues its queries and waits for the stores.
begin_detect_realtime(user_id, resource_type, confidence, timeout) ==
    /\ Idle
    /\ serving' = [pc |-> "waiting", user_id |-> user_id,
                   recommendation_data |-> [resource_type |-> resource_type,
                                            confidence_score |-> confidence],
                   timeout |-> timeout, waited |-> 0]
    /\ UNCHANGED <<users, recs, moods, now, reference_group, result, kept>>

\* the stores have not answered yet
wait_for_stores ==
    /\ serving # NoServing
    /\ serving.waited < MaxWait
    /\ serving' = [serving EXCEPT !.waited = @ + 1]
    /\ UNCHANGED <<users, recs, moods, now, reference_group, result, kept>>

\* a scorer that stores the recommendation it has scored
return_detect_realtime_recording ==
    /\ serving # NoServing
    /\ result' = [op |-> "detect_algorithmic_bias_realtime",
                  user_id |-> serving.user_id,
                  recommendation_data |-> serving.recommendation_data,
                  value |-> detect_algorithmic_bias_realtime(
                                users, recs, serving.user_id, serving.recommendation_data)]
    /\ serving' = NoServing
    /\ recs' = recs (+) SetToBag({NewRecommendation(serving.user_id,
                                      serving.recommendation_data.resource_type, "delivered",
                                      serving.recommendation_data.confidence_score, now)})
    /\ UNCHANGED <<users, moods, now, reference_group, kept>>

\* the stores answer and the scorer returns
return_detect_realtime ==
    /\ serving # NoServing
    /\ result' = [op |-> "detect_algorithmic_bias_realtime",
                  user_id |-> serving.user_id,
                  recommendation_data |-> serving.recommendation_data,
                  value |-> detect_algorithmic_bias_realtime(
                                users, recs, serving.user_id, serving.recommendation_data)]
    /\ serving' = NoServing
    /\ UNCHANGED <<users, recs, moods, now, reference_group, kept>>

\* the caller keeps the analysis it has received, with the time of the call
keep_response ==
    /\ result # NoResult
    /\ result.op = "analyze_recommendation_bias"
    /\ kept' = [days_back |-> result.days_back, value |-> result.value, at |-> now]
    /\ result' = NoResult
    /\ UNCHANGED <<users, recs, moods, now, reference_group, serving>>

\* the caller takes the response
take_response ==
    /\ result # NoResult
    /\ result' = NoResult
    /\ UNCHANGED <<users, recs, moods, now, reference_group, kept, serving>>

Next ==
    \/ \E p \in Profiles : create_user(p)
    \/ \E p \in Profiles, t \in ResourceTypes, s \in Statuses :
          create_recommendation(p, t, s, UsualConfidence)
    \/ \E d \in DaysBackValues : call_analyze_recommendation_bias(d)
    \/ \E d \in DaysBackValues : call_get_bias_analysis(d)
    \/ call_generate_bias_report
    \/ take_response

\* all records are as old as the clock says: no time passes
Spec == Init /\ [][Next]_vars

\* time passes between the writes and the calls, over a smaller store
NextClock ==
    \/ AdvanceClock
    \/ (Next /\ BagCardinality(recs') <= MaxClockRecs)

SpecClock == Init /\ [][NextClock]_vars

\* the deployment asks for any of the groups as the reference group
InitConfig ==
    /\ users = EmptyBag
    /\ recs = EmptyBag
    /\ moods = EmptyBag
    /\ now = 0
    /\ reference_group \in Races
    /\ result = NoResult
    /\ kept = NoResult
    /\ serving = NoServing

SpecConfig == InitConfig /\ [][NextClock]_vars

\* batches of the seed script
BatchSizes == {1, 11}

\* latency budgets of the callers of the real-time scorer
Timeouts == {1}

\* The engine as a whole: direct calls of the analyzer, the research API and
\* the real-time scorer over small stores, with windows of any length.

\* days_back: int = Query(90, ge=1, le=365) of the endpoints
MinDaysBack == 1
MaxDaysBack == 365
HTTP_422_UNPROCESSABLE_ENTITY == 422

\* the framework answers a parameter that fails its constraints before the
\* handler runs
RequestValidationError ==
    [status_code |-> HTTP_422_UNPROCESSABLE_ENTITY, detail |-> "validation error"]

ValidDaysBack(days_back) == MinDaysBack <= days_back /\ days_back <= MaxDaysBack

get_geographic_analysis(mood_table, clock, days_back) ==
    [status_code |-> 200, body |-> analyze_geographic_bias(mood_table, clock, days_back)]

\* windows a caller may ask for
EngineDaysBack == {-1, 90, 400}

\* the users who record moods, with the columns the geographic query reads
MoodOwners ==
    { [pseudonym_id |-> 1, zip_code_prefix |-> "021", race_ethnicity |-> "white",
       has_mental_health_provider |-> TRUE],
      [pseudonym_id |-> 2, zip_code_prefix |-> "100",
       race_ethnicity |-> "black_african_american",
       has_mental_health_provider |-> FALSE] }

MoodScores == {3, 7}

create_mood_entry(o, mood_score) ==
    /\ Idle
    /\ BagCardinality(moods) < MaxMoods
    /\ moods' = moods (+) SetToBag({[pseudonym_id |-> o.pseudonym_id,
                                      zip_code_prefix |-> o.zip_code_prefix,
                                      race_ethnicity |-> o.race_ethnicity,
                                      has_mental_health_provider |-> o.has_mental_health_provider,
                                      mood_score |-> mood_score,
                                      recorded_at |-> now]})
    /\ kept' = NoResult
    /\ UNCHANGED <<users, recs, now, reference_group, result, serving>>

call_analyze_geographic_bias(days_back) ==
    /\ Idle
    /\ result' = [op |-> "analyze_geographic_bias", days_back |-> days_back,
                  value |-> analyze_geographic_bias(moods, now, days_back)]
    /\ UNCHANGED <<users, recs, moods, now, reference_group, kept, serving>>

request_bias_analysis(days_back) ==
    /\ Idle
    /\ result' = [op |-> "request_bias_analysis", days_back |-> days_back,
                  value |-> IF ValidDaysBack(days_back)
                            THEN get_bias_analysis(recs, users, now, days_back)
                            ELSE RequestValidationError]
    /\ UNCHANGED <<users, recs, moods, now, reference_group, kept, serving>>

request_geographic_analysis(days_back) ==
    /\ Idle
    /\ result' = [op |-> "request_geographic_analysis", days_back |-> days_back,
                  value |-> IF ValidDaysBack(days_back)
                            THEN get_geographic_analysis(moods, now, days_back)
                            ELSE RequestValidationError]
    /\ UNCHANGED <<users, recs, moods, now, reference_group, kept, serving>>

NextEngine ==
    \/ (\E p \in Profiles : create_user(p)) /\ BagCardinality(users') <= MaxEngineUsers
    \/ (\E p \in Profiles, t \in ResourceTypes, s \in Statuses :
           create_recommendation(p, t, s, UsualConfidence))
          /\ BagCardinality(recs') <= MaxEngineRecs
    \/ (\E o \in MoodOwners, mood_score \in MoodScores : create_mood_entry(o, mood_score))
          /\ BagCardinality(moods') <= MaxEngineMoods
    \/ \E d \in EngineDaysBack : call_analyze_recommendation_bias(d)
    \/ \E d \in EngineDaysBack : call_analyze_geographic_bias(d)
    \/ \E d \in EngineDaysBack : request_bias_analysis(d)
    \/ \E d \in EngineDaysBack : request_geographic_analysis(d)
    \/ call_generate_bias_report
    \/ \E p \in Profiles, t \in ResourceTypes, timeout \in Timeouts :
          begin_detect_realtime(p, t, UsualConfidence, timeout)
    \/ return_detect_realtime
    \/ take_response

SpecEngine == Init /\ [][NextEngine]_vars

\* The recommendations router: submit_recommendation_feedback

\* RecommendationFeedback.engagement_level, ge=1, le=5
EngagementLevels == {1, 5}

\* RecommendationFeedback.action_taken, optional
FeedbackActions == {NULL, "clicked", "completed"}

ResourceNotFoundError == [exception |-> "ResourceNotFoundError"]

\* the record after the assignments of the handler; `changes` counts the
\* submissions that changed status or engagement_score
WithFeedback(recommendation, engagement_level, action_taken) ==
    LET engagement_score == Frac(engagement_level, 5)
        status == IF action_taken # NULL THEN action_taken ELSE recommendation.status
    IN  [recommendation EXCEPT
            !.engagement_score = engagement_score,
            !.status = status,
            !.changes = IF engagement_score # recommendation.engagement_score
                           \/ status # recommendation.status
                        THEN @ + 1 ELSE @]

\* the current user submits feedback on a stored recommendation
submit_recommendation_feedback(current_user, recommendation, engagement_level, action_taken) ==
    /\ Idle
    /\ BagIn(current_user, users)
    /\ BagIn(recommendation, recs)
    /\ recommendation.changes < MaxFeedback
    /\ IF recommendation.user # current_user
       THEN /\ result' = [op |-> "submit_recommendation_feedback",
                          value |-> ResourceNotFoundError]
            /\ UNCHANGED <<recs, kept>>
       ELSE /\ recs' = (recs (-) SetToBag({recommendation}))
                          (+) SetToBag({WithFeedback(recommendation, engagement_level,
                                                     action_taken)})
            /\ result' = [op |-> "submit_recommendation_feedback",
                          value |-> [message |-> "Feedback submitted successfully"]]
            /\ kept' = NoResult
    /\ UNCHANGED <<users, moods, now, reference_group, serving>>

NextFeedback ==
    \/ (\E p \in Profiles : create_user(p)) /\ BagCardinality(users') <= MaxFeedbackUsers
    \/ (\E p \in Profiles, t \in ResourceTypes, s \in Statuses :
           create_recommendation(p, t, s, UsualConfidence))
          /\ BagCardinality(recs') <= MaxFeedbackRecs
    \/ \E p \in Profiles, r \in DOMAIN recs, level \in EngagementLevels,
          action \in FeedbackActions : submit_recommendation_feedback(p, r, level, action)
    \/ take_response

SpecFeedback == Init /\ [][NextFeedback]_vars

\* The geographic analysis over users of several regions

\* users who record moods: three of one race in two regions, one of another
\* race, one who has not stated a race
GeoOwners ==
    { [pseudonym_id |-> 1, zip_code_prefix |-> "021", race_ethnicity |-> "white",
       has_mental_health_provider |-> TRUE],
      [pseudonym_id |-> 2, zip_code_prefix |-> "021", race_ethnicity |-> "white",
       has_mental_health_provider |-> TRUE],
      [pseudonym_id |-> 3, zip_code_prefix |-> "100", race_ethnicity |-> "white",
       has_mental_health_provider |-> FALSE],
      [pseudonym_id |-> 4, zip_code_prefix |-> "100",
       race_ethnicity |-> "black_african_american",
       has_mental_health_provider |-> TRUE],
      [pseudonym_id |-> 5, zip_code_prefix |-> "100", race_ethnicity |-> NULL,
       has_mental_health_provider |-> FALSE] }

NextGeographic ==
    \/ \E o \in GeoOwners, mood_score \in MoodScores : create_mood_entry(o, mood_score)
    \/ AdvanceClock
    \/ \E d \in DaysBackValues : call_analyze_geographic_bias(d)
    \/ take_response

SpecGeographic == Init /\ [][NextGeographic]_vars

\* The analysis over seeded partitions of about 20 rows

\* confidence scores of the seeded batches, in hundredths
CalibrationConfidences == {10, 50, 90}

CalibrationBatchSizes == {6, 7}

NextCalibration ==
    \/ (\E p \in Profiles : create_user(p)) /\ BagCardinality(users') <= MaxCalibrationUsers
    \/ \E p \in Profiles, t \in ResourceTypes, s \in Statuses,
          c \in CalibrationConfidences, k \in CalibrationBatchSizes :
          seed_recommendations(p, t, s, c, k)
    \/ \E d \in DaysBackValues : call_analyze_recommendation_bias(d)
    \/ take_response

SpecCalibration == Init /\ [][NextCalibration]_vars

\* Reports over small stores of every kind
call_run_bias_analysis(days_back) ==
    /\ Idle
    /\ result' = [op |-> "run_bias_analysis", days_back |-> days_back,
                  value |-> run_bias_analysis(recs, users, moods, now, days_back)]
    /\ UNCHANGED <<users, recs, moods, now, reference_group, kept, serving>>

NextReport ==
    \/ (\E p \in Profiles : create_user(p)) /\ BagCardinality(users') <= MaxReportUsers
    \/ (\E p \in Profiles, t \in ResourceTypes, s \in Statuses :
           create_recommendation(p, t, s, UsualConfidence))
          /\ BagCardinality(recs') <= MaxReportRecs
    \/ (\E o \in MoodOwners, mood_score \in MoodScores : create_mood_entry(o, mood_score))
          /\ BagCardinality(moods') <= MaxEngineMoods
    \/ call_generate_bias_report
    \/ \E d \in EngineDaysBack : call_run_bias_analysis(d)
    \/ take_response

SpecReport == Init /\ [][NextReport]_vars

\* a caller repeats the analysis and compares it with the one it has kept
NextRepeat ==
    \/ (\E p \in Profiles : create_user(p)) /\ BagCardinality(users') <= MaxRepeatUsers
    \/ (\E p \in Profiles, t \in ResourceTypes, s \in Statuses :
           create_recommendation(p, t, s, UsualConfidence))
          /\ BagCardinality(recs') <= MaxClockRecs
    \/ AdvanceClock
    \/ \E d \in DaysBackValues : call_analyze_recommendation_bias(d)
    \/ keep_response
    \/ take_response

SpecRepeat == Init /\ [][NextRepeat]_vars

\* the real-time scorer over seeded stores
NextRealtime ==
    \/ (\E p \in Profiles : create_user(p)) /\ BagCardinality(users') <= MaxRealtimeUsers
    \/ (\E p \in Profiles, t \in ResourceTypes, s \in Statuses, c \in Confidences,
           k \in BatchSizes : seed_recommendations(p, t, s, c, k))
          /\ Cardinality(DOMAIN recs') <= MaxBatches
    \/ \E p \in Profiles, t \in ResourceTypes, c \in Confidences, timeout \in Timeouts :
          begin_detect_realtime(p, t, c, timeout)
    \/ wait_for_stores
    \/ return_detect_realtime
    \/ take_response

SpecRealtime == Init /\ [][NextRealtime]_vars

-----------------------------------------------------------------------------
(* What the claims speak of, counted on the stores themselves *)

\* the number of stored recommendations that a call with days_back reads
\* and that satisfy P
RowsRead(days_back, P(_)) ==
    BagCardinality(Filter(recs, LAMBDA r : /\ BagIn(r.user, users)
                                           /\ r.user.has_sdoh
                                           /\ r.recommended_at >= now - days_back
                                           /\ P(r)))

\* the values of a column among the rows of a resource type that are read
ObservedGroups(days_back, t, col) ==
    {r.user[col] : r \in {x \in DOMAIN recs : /\ x.user.has_sdoh
                                               /\ x.recommended_at >= now - days_back
                                               /\ x.resource_type = t}} \ {NULL}

\* the rows of the partition of resource type t
PartitionSize(days_back, t) == RowsRead(days_back, LAMBDA r : r.resource_type = t)

\* the rows of group v of the partition
GroupCount(days_back, t, col, v) ==
    RowsRead(days_back, LAMBDA r : r.resource_type = t /\ r.user[col] = v)

\* the rows of group v of the partition with a successful outcome
SuccessCount(days_back, t, v) ==
    RowsRead(days_back, LAMBDA r : /\ r.resource_type = t
                                   /\ r.user.race_ethnicity = v
                                   /\ r.status \in {"engaged", "completed"})

\* the fraction q is n/d
IsRatio(q, n, d) == q.den > 0 /\ q.num * d = n * q.den

\* analyze_recommendation_bias has returned, with data
AnalysisWithData ==
    /\ result.op = "analyze_recommendation_bias"
    /\ "bias_tests" \in DOMAIN result.value

ParityColumns == {"race_ethnicity", "income_level", "gender_identity"}

-----------------------------------------------------------------------------
(* C1: whenever the join yields no row for the window,                     *)
(* analyze_recommendation_bias returns a result with                       *)
(* total_recommendations = 0 and an empty bias_tests mapping.              *)
C1_EmptyWindowResult ==
    (/\ result.op = "analyze_recommendation_bias"
     /\ RowsRead(result.days_back, LAMBDA r : TRUE) = 0)
        => /\ "total_recommendations" \in DOMAIN result.value
           /\ result.value.total_recommendations = 0
           /\ "bias_tests" \in DOMAIN result.value
           /\ DOMAIN result.value.bias_tests = {}

(* C2: over a window without recommendations the endpoint answers with a   *)
(* successful response that has every field of BiasAnalysisResponse, never *)
(* with an HTTP error.                                                     *)
C2_EmptyWindowResponse ==
    (/\ result.op = "get_bias_analysis"
     /\ RowsRead(result.days_back, LAMBDA r : TRUE) = 0)
        => /\ result.value.status_code = 200
           /\ {"analysis_period_days", "total_recommendations", "bias_tests",
               "fairness_metrics", "demographic_patterns", "recommendations"}
                  \subseteq DOMAIN result.value.body

(* C3: in every partition and for each of the three attributes, the        *)
(* max_difference of demographic parity is the largest group rate minus    *)
(* the smallest over the observed groups, biased says that it exceeds the  *)
(* fairness threshold of 0.1, and one observed group gives 0 and false.    *)
C3_ParityOf(days_back, t, col, entry) ==
    LET groups == ObservedGroups(days_back, t, col)
        n == PartitionSize(days_back, t)
    IN  groups # {} =>
            \E hi, lo \in groups :
                LET most  == GroupCount(days_back, t, col, hi)
                    least == GroupCount(days_back, t, col, lo)
                IN  /\ \A g \in groups :
                          /\ most >= GroupCount(days_back, t, col, g)
                          /\ GroupCount(days_back, t, col, g) >= least
                    /\ IsRatio(entry.max_difference, most - least, n)
                    /\ entry.biased <=> (10 * (most - least) > n)
                    /\ Cardinality(groups) = 1 =>
                          /\ entry.max_difference.num = 0
                          /\ ~entry.biased

C3_DemographicParity ==
    AnalysisWithData =>
        \A t \in DOMAIN result.value.bias_tests : \A col \in ParityColumns :
            C3_ParityOf(result.days_back, t, col,
                        result.value.bias_tests[t].demographic_parity[col])

\* a partition with a biased attribute of several groups, and an attribute
\* with a single group
C3_Witness ==
    /\ AnalysisWithData
    /\ \E t \in DOMAIN result.value.bias_tests : \E col \in ParityColumns :
          /\ Cardinality(ObservedGroups(result.days_back, t, col)) >= 2
          /\ result.value.bias_tests[t].demographic_parity[col].biased
    /\ \E t \in DOMAIN result.value.bias_tests : \E col \in ParityColumns :
          /\ Cardinality(ObservedGroups(result.days_back, t, col)) = 1
          /\ ~result.value.bias_tests[t].demographic_parity[col].biased

(* C4: in a partition whose rows all carry a value of the attribute, the   *)
(* reported rates are count of the group / rows of the partition, one for  *)
(* each observed group, and they sum to exactly 1.                         *)
C4_RatesOf(days_back, t, col, rates) ==
    RowsRead(days_back, LAMBDA r : r.resource_type = t /\ r.user[col] = NULL) = 0
        => /\ DOMAIN rates = ObservedGroups(days_back, t, col)
           /\ \A g \in DOMAIN rates :
                 IsRatio(rates[g], GroupCount(days_back, t, col, g),
                         PartitionSize(days_back, t))
           /\ SumOf(DOMAIN rates, rates) = [num |-> 1, den |-> 1]

C5_OddsOf(days_back, t, entry) ==
    LET groups == ObservedGroups(days_back, t, "race_ethnicity")
        Rate(g) == Frac(SuccessCount(days_back, t, g),
                        GroupCount(days_back, t, "race_ethnicity", g))
    IN  groups # {} =>
            /\ DOMAIN entry.success_rates = groups
            /\ \A g \in groups : entry.success_rates[g] = Rate(g)
            /\ \E hi, lo \in groups :
                  /\ \A g \in groups : FracGeq(Rate(hi), Rate(g)) /\ FracGeq(Rate(g), Rate(lo))
                  /\ entry.max_difference = FracSub(Rate(hi), Rate(lo))
                  /\ entry.biased <=> FracGreater(FracSub(Rate(hi), Rate(lo)),
                                                  [num |-> 1, den |-> 10])

C5_EqualizedOdds ==
    AnalysisWithData =>
        \A t \in DOMAIN result.value.bias_tests :
            "race_ethnicity" \in DOMAIN result.value.bias_tests[t].equalized_odds
                => C5_OddsOf(result.days_back, t,
                             result.value.bias_tests[t].equalized_odds["race_ethnicity"])

(* C6: every group with a race other than the reference group has the      *)
(* ratio therapy rate of the group / therapy rate of the reference group,  *)
(* 0 when the reference rate is 0 and 1 when the two rates are equal and   *)
(* positive; passes_80_percent_rule says that the ratio is at least 0.8;   *)
(* a group at 0.7 times the reference rate has ratio 0.7 and fails.        *)
C6_ImpactOf(days_back, g, entry) ==
    LET InGroup(race) == RowsRead(days_back, LAMBDA r : r.user.race_ethnicity = race)
        Therapy(race) == RowsRead(days_back, LAMBDA r : /\ r.user.race_ethnicity = race
                                                        /\ r.resource_type = "therapy")
    IN  /\ IsRatio(entry.therapy_rate, Therapy(g), InGroup(g))
        /\ IF Therapy("white") = 0
           THEN entry.ratio = [num |-> 0, den |-> 1]
           ELSE IsRatio(entry.ratio, Therapy(g) * InGroup("white"),
                        InGroup(g) * Therapy("white"))
        /\ (Therapy("white") > 0 /\ entry.therapy_rate = entry.white_therapy_rate)
              => entry.ratio = [num |-> 1, den |-> 1]
        /\ entry.passes_80_percent_rule <=> (10 * entry.ratio.num >= 8 * entry.ratio.den)

C6_DisparateImpact ==
    /\ ImpactOfRates([num |-> 7, den |-> 20], [num |-> 1, den |-> 2])
          = [therapy_rate |-> [num |-> 7, den |-> 20],
             white_therapy_rate |-> [num |-> 1, den |-> 2],
             ratio |-> [num |-> 7, den |-> 10],
             passes_80_percent_rule |-> FALSE]
    /\ (AnalysisWithData /\ "disparate_impact" \in DOMAIN result.value.fairness_metrics)
          => \A g \in DOMAIN result.value.fairness_metrics.disparate_impact \ {NULL} :
                C6_ImpactOf(result.days_back, g,
                            result.value.fairness_metrics.disparate_impact[g])

\* one group passes with a ratio of 1 or more, another fails with a ratio
\* strictly between 0 and 0.8
C6_Witness ==
    /\ AnalysisWithData
    /\ "disparate_impact" \in DOMAIN result.value.fairness_metrics
    /\ \E g, h \in DOMAIN result.value.fairness_metrics.disparate_impact \ {NULL} :
          /\ result.value.fairness_metrics.disparate_impact[g].passes_80_percent_rule
          /\ ~result.value.fairness_metrics.disparate_impact[h].passes_80_percent_rule
          /\ result.value.fairness_metrics.disparate_impact[h].ratio.num > 0

(* C7: the reference group of the disparate-impact comparison is the one   *)
(* that was configured: the result has one entry for every observed group  *)
(* other than the configured one, each compared with the therapy rate of   *)
(* the configured group.                                                   *)
C7_ConfiguredReference ==
    (AnalysisWithData /\ "disparate_impact" \in DOMAIN result.value.fairness_metrics)
        => /\ DOMAIN result.value.fairness_metrics.disparate_impact \ {NULL}
                 = {r.user.race_ethnicity :
                        r \in {x \in DOMAIN recs :
                                  /\ x.user.has_sdoh
                                  /\ x.recommended_at >= now - result.days_back}}
                       \ {NULL, reference_group}
           /\ \A g \in DOMAIN result.value.fairness_metrics.disparate_impact :
                 IF RowsRead(result.days_back,
                             LAMBDA r : r.user.race_ethnicity = reference_group) = 0
                 THEN result.value.fairness_metrics.disparate_impact[g]
                          .white_therapy_rate.num = 0
                 ELSE IsRatio(result.value.fairness_metrics.disparate_impact[g]
                                  .white_therapy_rate,
                              RowsRead(result.days_back,
                                       LAMBDA r : /\ r.user.race_ethnicity = reference_group
                                                  /\ r.resource_type = "therapy"),
                              RowsRead(result.days_back,
                                       LAMBDA r : r.user.race_ethnicity = reference_group))

(* C8: every race group of the user population has in representation_parity *)
(* population_rate = users of the group / all users, recommendation_rate = *)
(* rows of the group read / all rows read, parity_ratio = recommendation   *)
(* rate / population rate and underrepresented = parity_ratio < 0.8; a     *)
(* group without a row read has rate 0 and is underrepresented.            *)
C8_ParityOf(days_back, g, population, entry) ==
    LET all_users == BagCardinality(users)
        group_rows == RowsRead(days_back, LAMBDA r : r.user.race_ethnicity = g)
        all_rows == RowsRead(days_back, LAMBDA r : TRUE)
    IN  /\ IsRatio(entry.population_rate, population, all_users)
        /\ IsRatio(entry.recommendation_rate, group_rows, all_rows)
        /\ IsRatio(entry.parity_ratio, group_rows * all_users, all_rows * population)
        /\ entry.underrepresented <=> (10 * group_rows * all_users < 8 * all_rows * population)
        /\ group_rows = 0 => (entry.recommendation_rate.num = 0 /\ entry.underrepresented)

C9_ParityFindingsOf(findings, t, col, entry) ==
    LET found == {i \in DOMAIN findings :
                     /\ findings[i].type = "demographic_parity_violation"
                     /\ findings[i].resource_type = t
                     /\ findings[i].demographic_attribute = col}
    IN  /\ Cardinality(found) = IF entry.biased THEN 1 ELSE 0
        /\ \A i \in found :
              findings[i].severity =
                  IF 10 * entry.max_difference.num > 3 * entry.max_difference.den
                  THEN "high" ELSE "medium"

C9_GroupFindingsOf(findings, type, severity, g, flagged) ==
    LET found == {i \in DOMAIN findings :
                     findings[i].type = type /\ findings[i].demographic_group = g}
    IN  /\ Cardinality(found) = IF flagged THEN 1 ELSE 0
        /\ \A i \in found : findings[i].severity = severity

C9_FindingsOf(findings, bias_tests, parity, impact) ==
    /\ \A t \in DOMAIN bias_tests : \A col \in ParityColumns :
          C9_ParityFindingsOf(findings, t, col, bias_tests[t].demographic_parity[col])
    /\ \A g \in DOMAIN parity :
          C9_GroupFindingsOf(findings, "underrepresentation", "medium", g,
                             parity[g].underrepresented)
    /\ \A g \in DOMAIN impact :
          C9_GroupFindingsOf(findings, "disparate_impact", "high", g,
                             ~impact[g].passes_80_percent_rule)
    /\ \A i \in DOMAIN findings :
          \/ /\ findings[i].type = "demographic_parity_violation"
             /\ findings[i].resource_type \in DOMAIN bias_tests
             /\ findings[i].demographic_attribute \in ParityColumns
          \/ /\ findings[i].type = "underrepresentation"
             /\ findings[i].demographic_group \in DOMAIN parity
          \/ /\ findings[i].type = "disparate_impact"
             /\ findings[i].demographic_group \in DOMAIN impact

C9_Findings ==
    AnalysisWithData =>
        C9_FindingsOf(result.value.recommendations,
                      result.value.bias_tests,
                      result.value.fairness_metrics.representation_parity,
                      IF "disparate_impact" \in DOMAIN result.value.fairness_metrics
                      THEN result.value.fairness_metrics.disparate_impact
                      ELSE << >>)

\* findings of all three kinds, a parity violation of either severity among
\* them, next to a parity test that is not biased
C9_Witness ==
    /\ AnalysisWithData
    /\ \E i, j, k, l \in DOMAIN result.value.recommendations :
          /\ result.value.recommendations[i].type = "demographic_parity_violation"
          /\ result.value.recommendations[i].severity = "high"
          /\ result.value.recommendations[j].type = "demographic_parity_violation"
          /\ result.value.recommendations[j].severity = "medium"
          /\ result.value.recommendations[k].type = "underrepresentation"
          /\ result.value.recommendations[l].type = "disparate_impact"
    /\ \E t \in DOMAIN result.value.bias_tests : \E col \in ParityColumns :
          ~result.value.bias_tests[t].demographic_parity[col].biased

(* C10: the risk level of a report is high if a tallied finding has        *)
(* severity high, otherwise medium if more than 2 findings are tallied,    *)
(* otherwise low.                                                          *)
C10_LevelOf(findings) ==
    IF \E i \in DOMAIN findings : findings[i].severity = "high" THEN "high"
    ELSE IF Len(findings) > 2 THEN "medium"
    ELSE "low"

C10_RiskLevel ==
    result.op = "generate_bias_report" =>
        result.value.overall_assessment.bias_risk_level =
            C10_LevelOf(IF "recommendations" \in DOMAIN result.value.recommendation_bias
                        THEN result.value.recommendation_bias.recommendations
                        ELSE << >>)

\* a report of more than 2 findings, none of them high: medium
C10_Witness ==
    /\ result.op = "generate_bias_report"
    /\ "recommendations" \in DOMAIN result.value.recommendation_bias
    /\ Len(result.value.recommendation_bias.recommendations) > 2
    /\ result.value.overall_assessment.bias_risk_level = "medium"

\* the findings a report tallies
ReportFindings ==
    IF "recommendations" \in DOMAIN result.value.recommendation_bias
    THEN result.value.recommendation_bias.recommendations
    ELSE << >>

(* C11: the action list of a report is ordered immediate, medium, ongoing: *)
(* the immediate item is there iff a finding has severity high, the medium *)
(* item iff there is a finding, the ongoing item always and as the last    *)
(* one, and no priority occurs twice.                                      *)
C11_ActionsOf(items, findings) ==
    LET At(priority) == {i \in DOMAIN items : items[i].priority = priority}
    IN  /\ \A i \in DOMAIN items : items[i].priority \in {"immediate", "medium", "ongoing"}
        /\ \A priority \in {"immediate", "medium", "ongoing"} : Cardinality(At(priority)) <= 1
        /\ At("immediate") # {} <=> \E i \in DOMAIN findings : findings[i].severity = "high"
        /\ At("medium") # {} <=> Len(findings) > 0
        /\ At("ongoing") = {Len(items)}
        /\ \A i \in At("immediate"), j \in At("medium") : i < j

C11_ActionList ==
    result.op = "generate_bias_report" =>
        C11_ActionsOf(result.value.action_items, ReportFindings)

\* a report with all three items, after findings of which one is high
C11_Witness ==
    /\ result.op = "generate_bias_report"
    /\ Len(result.value.action_items) = 3
    /\ \E i \in DOMAIN ReportFindings : ReportFindings[i].severity = "medium"

\* the real-time scorer has returned for a user it can find
ScoredExistingUser ==
    /\ result.op = "detect_algorithmic_bias_realtime"
    /\ BagIn(result.user_id, users)
    /\ result.user_id.has_sdoh

\* users of the cohort of user u, and the recommendations of their cohort
CohortUsers(u) ==
    BagCardinality(Filter(users, LAMBDA v : /\ v.has_sdoh
                                            /\ v.race_ethnicity = u.race_ethnicity
                                            /\ v.income_level = u.income_level))

CohortTherapy(u) ==
    BagCardinality(Filter(recs, LAMBDA r : /\ BagIn(r.user, users)
                                           /\ r.user.has_sdoh
                                           /\ r.user.race_ethnicity = u.race_ethnicity
                                           /\ r.user.income_level = u.income_level
                                           /\ r.resource_type = "therapy"))

AllTherapy == BagCardinality(Filter(recs, LAMBDA r : r.resource_type = "therapy"))

(* C12: for a therapy recommendation and an existing user the scorer emits *)
(* therapy_underrepresentation iff the cohort of the user is not empty and *)
(* cohort rate / overall rate is below 0.8 (the quotient taken as 0 when   *)
(* the overall rate is 0, the cohort rate as the code takes it), with      *)
(* severity 1 - ratio; for another resource type it never emits it.        *)
C12_UnderrepresentationOf(u, therapy, value) ==
    LET below == \/ AllTherapy = 0
                 \/ 10 * CohortTherapy(u) * BagCardinality(recs)
                        < 8 * CohortUsers(u) * AllTherapy
    IN  /\ "bias_indicators" \in DOMAIN value
        /\ "therapy_underrepresentation" \in DOMAIN value.bias_indicators
              <=> (therapy /\ CohortUsers(u) > 0 /\ below)
        /\ "therapy_underrepresentation" \in DOMAIN value.bias_indicators
              => IF AllTherapy = 0
                 THEN value.bias_indicators["therapy_underrepresentation"].severity
                          = [num |-> 1, den |-> 1]
                 ELSE IsRatio(value.bias_indicators["therapy_underrepresentation"].severity,
                              CohortUsers(u) * AllTherapy
                                  - CohortTherapy(u) * BagCardinality(recs),
                              CohortUsers(u) * AllTherapy)

C12_TherapyUnderrepresentation ==
    ScoredExistingUser =>
        C12_UnderrepresentationOf(result.user_id,
                                  result.recommendation_data.resource_type = "therapy",
                                  result.value)

(* C13: for any resource type and any stated confidence, 0 included, a     *)
(* returned result has poor_calibration iff more than 10 recommendations   *)
(* lie within 0.1 of the confidence and |confidence - their success rate|  *)
(* exceeds 0.2, with that error as its severity.                           *)
C13_CalibrationOf(confidence, indicators) ==
    LET near == Filter(recs, LAMBDA r : /\ r.confidence_score >= confidence - 10
                                        /\ r.confidence_score <= confidence + 10)
        total == BagCardinality(near)
        succeeded == BagCardinality(Filter(near, LAMBDA r : r.status \in {"engaged", "completed"}))
        \* |confidence/100 - succeeded/total| in units of 1/(100 * total)
        error == Abs(confidence * total - 100 * succeeded)
    IN  /\ "poor_calibration" \in DOMAIN indicators
              <=> (total > 10 /\ 5 * error > 100 * total)
        /\ "poor_calibration" \in DOMAIN indicators
              => IsRatio(indicators["poor_calibration"].severity, error, 100 * total)

C13_PoorCalibration ==
    (/\ result.op = "detect_algorithmic_bias_realtime"
     /\ "bias_indicators" \in DOMAIN result.value)
        => C13_CalibrationOf(result.recommendation_data.confidence_score,
                             result.value.bias_indicators)

(* C16: no operation of the engine fails because a denominator is zero:   *)
(* the real-time scorer returns a structured result for an existing user   *)
(* and a therapy recommendation also when no recommendation is stored.     *)
C16_NoZeroDivision ==
    result # NoResult => result.value # [exception |-> "ZeroDivisionError"]

(* C17: the real-time scorer never waits for the stores beyond the timeout *)
(* of its caller: when the queries have not answered by then it has        *)
(* returned a skipped result.                                              *)
C17_WaitsWithinTimeout ==
    serving.pc = "waiting" => serving.waited <= serving.timeout

(* C20: the cohort therapy rate that the real-time scorer compares with    *)
(* the overall therapy rate is a share of recommendation records and never *)
(* exceeds 1.                                                              *)
C20_CohortRateAtMostOne ==
    (/\ ScoredExistingUser
     /\ "bias_indicators" \in DOMAIN result.value
     /\ result.recommendation_data.resource_type = "therapy"
     /\ TotalSimilar(users, result.user_id) > 0)
        => FracGeq([num |-> 1, den |-> 1],
                   Frac(SimilarUsers(users, recs, result.user_id),
                        TotalSimilar(users, result.user_id)))

FindingsBag(findings) ==
    [f \in {findings[i] : i \in DOMAIN findings} |->
        Cardinality({i \in DOMAIN findings : findings[i] = f})]

SameAnalysis(a, b) ==
    IF "error" \in DOMAIN a \/ "error" \in DOMAIN b
    THEN a = b
    ELSE /\ [a EXCEPT !.recommendations = <<>>] = [b EXCEPT !.recommendations = <<>>]
         /\ FindingsBag(a.recommendations) = FindingsBag(b.recommendations)

\* the same stored recommendations are inside the window at both times
SameWindow(days_back, first, second) ==
    \A r \in DOMAIN recs :
        (first - r.recommended_at <= days_back) <=> (second - r.recommended_at <= days_back)

Rejected(value) == value = RequestValidationError \/ "exception" \in DOMAIN value

DaysBackCalls ==
    {"analyze_recommendation_bias", "analyze_geographic_bias",
     "request_bias_analysis", "request_geographic_analysis"}

(* C15: a call of analyze_recommendation_bias or analyze_geographic_bias   *)
(* with days_back outside [1,365] is rejected with an error, through the   *)
(* research API and when the analyzer is called directly.                  *)
C15_InvalidWindowRejected ==
    (/\ result.op \in DaysBackCalls
     /\ ~(result.days_back \in 1..365))
        => Rejected(result.value)

\* a step of one of the four operations of the engine
EngineStep ==
    \/ serving' # serving
    \/ /\ result' # result
       /\ result'.op \in {"analyze_recommendation_bias", "analyze_geographic_bias",
                           "detect_algorithmic_bias_realtime", "generate_bias_report"}

(* C18: no step of analyze_recommendation_bias, analyze_geographic_bias,   *)
(* detect_algorithmic_bias_realtime or generate_bias_report changes the    *)
(* user, social-determinant, recommendation or mood stores.                *)
C18_StoresUnchanged ==
    [][EngineStep => (users' = users /\ recs' = recs /\ moods' = moods)]_vars

C18_Witness ==
    /\ result.op = "detect_algorithmic_bias_realtime"
    /\ "bias_indicators" \in DOMAIN result.value
    /\ BagCardinality(users) = MaxEngineUsers
    /\ BagCardinality(recs) = MaxEngineRecs
    /\ BagCardinality(moods) = MaxEngineMoods

(* C19: status and engagement_score of a recommendation record are        *)
(* changed by at most one feedback submission of its owner.                *)
C19_FeedbackOnce ==
    \A r \in DOMAIN recs : r.changes <= 1

\* the goodness-of-fit statistic of the race counts of a partition against
\* the uniform expectation n/k: the sum of (o - n/k)^2 / (n/k)
C22_SquaredDeviation(observed, n, k) == Frac((k * observed - n) * (k * observed - n), k * n)

C22_GoodnessOfFit(days_back, t, groups, n) ==
    SumOf(groups, [v \in groups |->
                      C22_SquaredDeviation(GroupCount(days_back, t, "race_ethnicity", v),
                                           n, Cardinality(groups))])

C22_TestOf(days_back, t, groups, tests) ==
    IF Cardinality(groups) >= 2
    THEN /\ "race_chi2" \in DOMAIN tests
         /\ tests.race_chi2.statistic =
                C22_GoodnessOfFit(days_back, t, groups,
                    RowsRead(days_back, LAMBDA r : /\ r.resource_type = t
                                                   /\ r.user.race_ethnicity # NULL))
    ELSE ~("race_chi2" \in DOMAIN tests)

(* C22: for every partition with at least 2 observed race categories the   *)
(* reported race chi-square statistic is the goodness-of-fit statistic     *)
(* against the uniform expectation (0 iff all counts are equal); with      *)
(* fewer than 2 categories no chi-square result is produced.               *)
C22_ChiSquare ==
    AnalysisWithData =>
        \A t \in DOMAIN result.value.bias_tests :
            C22_TestOf(result.days_back, t,
                       ObservedGroups(result.days_back, t, "race_ethnicity"),
                       result.value.bias_tests[t].statistical_tests)

\* the resource types among the rows that are read
C27_TypesRead(days_back) ==
    {t \in ResourceTypes : PartitionSize(days_back, t) > 0}

C27_PartitionOf(days_back, value) ==
    /\ DOMAIN value.bias_tests = C27_TypesRead(days_back)
    /\ \A t \in DOMAIN value.bias_tests :
           /\ value.bias_tests[t].resource_type = t
           /\ value.bias_tests[t].total_count = PartitionSize(days_back, t)
    /\ SumOf(DOMAIN value.bias_tests,
             [t \in DOMAIN value.bias_tests |-> Frac(value.bias_tests[t].total_count, 1)])
           = Frac(value.total_recommendations, 1)

(* C27: in every non-empty result of analyze_recommendation_bias,          *)
(* bias_tests has exactly one entry per resource type of the loaded        *)
(* dataset and the total_count values sum to total_recommendations.        *)
C27_PartitionCounts ==
    AnalysisWithData => C27_PartitionOf(result.days_back, result.value)

C27_Witness ==
    /\ AnalysisWithData
    /\ DOMAIN result.value.bias_tests = ResourceTypes
    /\ result.value.bias_tests["therapy"].total_count = 3
    /\ result.value.bias_tests["self_care"].total_count = 1
    /\ result.value.total_recommendations = 4

\* a therapy recommendation is read, none of them of the reference group
C26_ReferenceWithoutTherapy(days_back) ==
    /\ RowsRead(days_back, LAMBDA r : r.resource_type = "therapy") >= 1
    /\ RowsRead(days_back, LAMBDA r : /\ r.user.race_ethnicity = "white"
                                      /\ r.resource_type = "therapy") = 0

\* the race groups among the rows that are read
C26_RacesRead(days_back) ==
    {g \in Races : RowsRead(days_back, LAMBDA r : r.user.race_ethnicity = g) > 0}

C26_AnalysisOf(days_back, value) ==
    /\ "disparate_impact" \in DOMAIN value.fairness_metrics
    /\ \A g \in C26_RacesRead(days_back) \ {"white"} :
           /\ g \in DOMAIN value.fairness_metrics.disparate_impact
           /\ value.fairness_metrics.disparate_impact[g].ratio = [num |-> 0, den |-> 1]
           /\ ~value.fairness_metrics.disparate_impact[g].passes_80_percent_rule
           /\ \E i \in DOMAIN value.recommendations :
                  /\ value.recommendations[i].type = "disparate_impact"
                  /\ value.recommendations[i].severity = "high"
                  /\ value.recommendations[i].demographic_group = g

(* C26: when the window holds a therapy recommendation but the reference   *)
(* group has no recommendation or a therapy rate of 0, every other         *)
(* observed race group gets ratio 0, fails the 80% rule and has a          *)
(* high-severity disparate_impact finding, and a report built on such a    *)
(* window has bias_risk_level high.                                        *)
C26_ZeroReferenceRate ==
    /\ (result.op = "analyze_recommendation_bias"
           /\ C26_ReferenceWithoutTherapy(result.days_back))
          => C26_AnalysisOf(result.days_back, result.value)
    /\ (result.op = "generate_bias_report" /\ C26_ReferenceWithoutTherapy(90))
          => /\ C26_AnalysisOf(90, result.value.recommendation_bias)
             /\ result.value.overall_assessment.bias_risk_level = "high"

\* the reference group is read, without a therapy recommendation, and one
\* other group is
C26_Witness ==
    /\ result.op = "generate_bias_report"
    /\ C26_ReferenceWithoutTherapy(90)
    /\ C26_RacesRead(90) = {"white", "black_african_american"}
    /\ result.value.overall_assessment.high_severity_issues >= 1

\* q > 1/5 and q <= 1
C28_SeverityInRange(q) == q.den > 0 /\ 5 * q.num > q.den /\ q.num <= q.den

C28_SummaryOf(value) ==
    /\ value.bias_detected <=> (DOMAIN value.bias_indicators # {})
    /\ (DOMAIN value.bias_indicators = {}) => value.max_severity = [num |-> 0, den |-> 1]
    /\ (DOMAIN value.bias_indicators # {}) =>
           /\ \E k \in DOMAIN value.bias_indicators :
                  value.max_severity = value.bias_indicators[k].severity
           /\ \A k \in DOMAIN value.bias_indicators :
                  value.bias_indicators[k].severity.num * value.max_severity.den
                      <= value.max_severity.num * value.bias_indicators[k].severity.den
    /\ \A k \in DOMAIN value.bias_indicators :
           C28_SeverityInRange(value.bias_indicators[k].severity)
    /\ value.bias_detected <=> (5 * value.max_severity.num > value.max_severity.den)

(* C28: in every result of the real-time scorer for an existing user,      *)
(* bias_detected is true iff an indicator is emitted, max_severity is 0    *)
(* without indicator and otherwise the largest emitted severity, and every *)
(* emitted severity is greater than 0.2 and at most 1.                     *)
C28_SeveritySummary ==
    (ScoredExistingUser /\ "bias_indicators" \in DOMAIN result.value)
        => C28_SummaryOf(result.value)

\* both indicators are emitted, with different severities
C28_Witness ==
    /\ ScoredExistingUser
    /\ "bias_indicators" \in DOMAIN result.value
    /\ DOMAIN result.value.bias_indicators
          = {"therapy_underrepresentation", "poor_calibration"}
    /\ result.value.bias_indicators["therapy_underrepresentation"].severity
          # result.value.bias_indicators["poor_calibration"].severity

\* a report has been returned
ReportReturned == result.op \in {"generate_bias_report", "run_bias_analysis"}

\* the users with a mood entry no older than days_back
C24_LocationsRead(days_back) ==
    Cardinality({m.pseudonym_id : m \in {x \in DOMAIN moods : now - x.recorded_at <= days_back}})

C24_WindowOf(report) ==
    /\ "analysis_period_days" \in DOMAIN report.recommendation_bias
          => /\ report.recommendation_bias.analysis_period_days = 90
             /\ report.recommendation_bias.total_recommendations
                   = RowsRead(90, LAMBDA r : TRUE)
    /\ "analysis_period_days" \in DOMAIN report.geographic_bias
          => /\ report.geographic_bias.analysis_period_days = 90
             /\ report.geographic_bias.total_locations = C24_LocationsRead(90)
    /\ ("error" \in DOMAIN report.recommendation_bias)
          <=> RowsRead(90, LAMBDA r : TRUE) = 0
    /\ ("error" \in DOMAIN report.geographic_bias) <=> C24_LocationsRead(90) = 0

(* C24: every report runs both sub-analyses over the same window of 90     *)
(* days, whatever days_back run_bias_analysis is called with: the periods  *)
(* of the sub-results with data are 90 and they count the rows of the last *)
(* 90 days.                                                                *)
C24_ReportWindow == ReportReturned => C24_WindowOf(result.value)

C24_Witness ==
    /\ result.op = "run_bias_analysis"
    /\ result.days_back = 400
    /\ "analysis_period_days" \in DOMAIN result.value.recommendation_bias
    /\ "analysis_period_days" \in DOMAIN result.value.geographic_bias
    /\ result.value.recommendation_bias.analysis_period_days
          = result.value.geographic_bias.analysis_period_days

\* the findings of the recommendation analysis of a report
C25_Findings(report) ==
    IF "recommendations" \in DOMAIN report.recommendation_bias
    THEN report.recommendation_bias.recommendations
    ELSE <<>>

C25_High(findings) == Cardinality({i \in DOMAIN findings : findings[i].severity = "high"})

C25_AssessmentOf(report, findings) ==
    /\ report.overall_assessment.total_bias_issues = Len(findings)
    /\ report.overall_assessment.high_severity_issues = C25_High(findings)
    /\ report.overall_assessment.bias_risk_level
          = (IF C25_High(findings) > 0 THEN "high"
             ELSE IF Len(findings) > 2 THEN "medium" ELSE "low")
    /\ Len(report.action_items)
          = 1 + (IF Len(findings) > 0 THEN 1 ELSE 0) + (IF C25_High(findings) > 0 THEN 1 ELSE 0)
    /\ "recommendations" \in DOMAIN report.geographic_bias
          => report.geographic_bias.recommendations = <<>>

(* C25: the issue counts, the risk level and the action items of a report  *)
(* are a function of the findings of the recommendation analysis only: the *)
(* geographic analysis returns no findings, whatever disparity it reports. *)
C25_GeographicNotTallied ==
    ReportReturned => C25_AssessmentOf(result.value, C25_Findings(result.value))

\* a significant access disparity and a low-access area, and a report
\* without issues
C25_Witness ==
    /\ ReportReturned
    /\ "access_disparities" \in DOMAIN result.value.geographic_bias
    /\ result.value.geographic_bias.access_disparities.access_gap.significant_disparity
    /\ result.value.geographic_bias.geographic_patterns.low_access_areas > 0
    /\ "recommendations" \in DOMAIN result.value.recommendation_bias
    /\ result.value.overall_assessment.total_bias_issues = 0
    /\ result.value.overall_assessment.bias_risk_level = "low"

(* C29: when the recommendation window is empty the report is still        *)
(* returned, with total_bias_issues = 0, high_severity_issues = 0,         *)
(* bias_risk_level low, requires_immediate_action false and the single     *)
(* ongoing action item.                                                    *)
C29_EmptyWindowReport ==
    (ReportReturned /\ RowsRead(90, LAMBDA r : TRUE) = 0)
        => /\ result.value.overall_assessment
                 = [total_bias_issues |-> 0, high_severity_issues |-> 0,
                    bias_risk_level |-> "low", requires_immediate_action |-> FALSE]
           /\ Len(result.value.action_items) = 1
           /\ result.value.action_items[1].priority = "ongoing"

\* recommendations are stored, none of them of a user the join keeps
C29_Witness ==
    /\ ReportReturned
    /\ recs # EmptyBag
    /\ RowsRead(90, LAMBDA r : TRUE) = 0
    /\ "error" \in DOMAIN result.value.recommendation_bias
    /\ result.value.overall_assessment.bias_risk_level = "low"

\* analyze_geographic_bias has returned, with data
GeographicWithData ==
    /\ result.op = "analyze_geographic_bias"
    /\ "access_disparities" \in DOMAIN result.value

C23_GapOf(rates, gap) ==
    /\ \E v \in DOMAIN rates : gap.max_rate = rates[v]
    /\ \A v \in DOMAIN rates : rates[v].num * gap.max_rate.den <= gap.max_rate.num * rates[v].den
    /\ \E v \in DOMAIN rates : gap.min_rate = rates[v]
    /\ \A v \in DOMAIN rates : gap.min_rate.num * rates[v].den <= rates[v].num * gap.min_rate.den
    /\ IsRatio(gap.gap,
               gap.max_rate.num * gap.min_rate.den - gap.min_rate.num * gap.max_rate.den,
               gap.max_rate.den * gap.min_rate.den)
    /\ gap.significant_disparity <=> (5 * gap.gap.num > gap.gap.den)
    /\ Cardinality(DOMAIN rates) = 1
          => (gap.gap = [num |-> 0, den |-> 1] /\ ~gap.significant_disparity)

(* C23: in every geographic analysis with data and a race group,           *)
(* access_gap.gap = max_rate - min_rate where max_rate and min_rate are    *)
(* the largest and the smallest access rate by race, and                   *)
(* significant_disparity = (gap > 0.2); with a single race group the gap   *)
(* is 0 and significant_disparity is false.                                *)
C23_AccessGap ==
    (/\ GeographicWithData
     /\ DOMAIN result.value.access_disparities.access_rates_by_race # {})
        => C23_GapOf(result.value.access_disparities.access_rates_by_race,
                     result.value.access_disparities.access_gap)

\* two race groups with a gap of one half
C23_Witness ==
    /\ GeographicWithData
    /\ Cardinality(DOMAIN result.value.access_disparities.access_rates_by_race) = 2
    /\ result.value.access_disparities.access_gap.gap = [num |-> 1, den |-> 2]
    /\ result.value.access_disparities.access_gap.significant_disparity

\* the users with a mood entry no older than days_back, with the columns of
\* the geographic query
C30_UsersRead(days_back) ==
    {[pseudonym_id |-> m.pseudonym_id, zip_code_prefix |-> m.zip_code_prefix,
      race_ethnicity |-> m.race_ethnicity,
      has_mental_health_provider |-> m.has_mental_health_provider] :
        m \in {x \in DOMAIN moods : now - x.recorded_at <= days_back}}

C30_RegionRate(U, race, zip) ==
    Frac(Cardinality({u \in U : /\ u.race_ethnicity = race /\ u.zip_code_prefix = zip
                                /\ u.has_mental_health_provider}),
         Cardinality({u \in U : u.race_ethnicity = race /\ u.zip_code_prefix = zip}))

C30_MeanOverRegions(U, race, zips) ==
    FracDiv(SumOf(zips, [zip \in zips |-> C30_RegionRate(U, race, zip)]),
            Frac(Cardinality(zips), 1))

C30_RatesOf(U, rates) ==
    /\ DOMAIN rates = {u.race_ethnicity : u \in U} \ {NULL}
    /\ \A race \in DOMAIN rates :
           rates[race] = C30_MeanOverRegions(U, race,
                             {u.zip_code_prefix : u \in {x \in U : x.race_ethnicity = race}})

(* C30: the access rate of a race group is the unweighted mean, over the   *)
(* regions where the group occurs, of the group's access rate in the       *)
(* region; it is not weighted by the number of users of the region.        *)
C30_MeanOfRegionMeans ==
    GeographicWithData
        => C30_RatesOf(C30_UsersRead(result.days_back),
                       result.value.access_disparities.access_rates_by_race)

\* the rate of a group differs from the share of its users with a provider
C30_Witness ==
    /\ GeographicWithData
    /\ "white" \in DOMAIN result.value.access_disparities.access_rates_by_race
    /\ result.value.access_disparities.access_rates_by_race["white"] = [num |-> 1, den |-> 2]
    /\ Cardinality({u \in C30_UsersRead(result.days_back) : u.race_ethnicity = "white"}) = 3
    /\ Cardinality({u \in C30_UsersRead(result.days_back) :
                        u.race_ethnicity = "white" /\ u.has_mental_health_provider}) = 2

\* the confidence scores of the rows of the partition of type t
C21_Scores(days_back, t) ==
    {c \in CalibrationConfidences \cup {UsualConfidence} :
        RowsRead(days_back, LAMBDA r : r.resource_type = t /\ r.confidence_score = c) > 0}

\* the number of confidence buckets of the partition that hold a row
C21_Buckets(scores) ==
    Cardinality({ConfidenceBin(c, CHOOSE l \in scores : \A d \in scores : l <= d,
                                  CHOOSE h \in scores : \A d \in scores : h >= d) :
                    c \in scores})

C21_CalibrationOf(rows, buckets, test) ==
    /\ IF rows >= 20 /\ buckets >= 3
       THEN "correlation" \in DOMAIN test.calibration
       ELSE /\ DOMAIN test.calibration # {}
            /\ ~("correlation" \in DOMAIN test.calibration)
    /\ DOMAIN test.demographic_parity = ParityColumns
    /\ {"equalized_odds", "statistical_tests"} \subseteq DOMAIN test

(* C21: for every resource-type partition, calibration is computed when    *)
(* the partition has at least 20 rows and at least 3 non-empty confidence  *)
(* buckets; otherwise the calibration result is marked insufficient_data,  *)
(* not left empty, and the parity, equalized-odds and chi-square results   *)
(* of the partition are still produced.                                    *)
C21_Calibration ==
    AnalysisWithData =>
        \A t \in DOMAIN result.value.bias_tests :
            C21_CalibrationOf(PartitionSize(result.days_back, t),
                              C21_Buckets(C21_Scores(result.days_back, t)),
                              result.value.bias_tests[t])

====
